---------------------------- MODULE Spec2Model ----------------------------
(***************************************************************************)
(* passport-ldap: the LDAP authentication strategy.                        *)
(*                                                                         *)
(* The repository holds two Strategy classes: the one of                   *)
(* src/unnamed/part_001 (a client per authenticate call, configurable      *)
(* field names, Windows and Unix DN modes with a base given as a string or *)
(* as components) and the one of src/lib/passport-ldap/strategy.js (one    *)
(* client made by the constructor, the fields req.body.user and            *)
(* req.body.pwd).  The variable file says which class the application    *)
(* loaded; every action is the translation of one handler of one class.    *)
(*                                                                         *)
(* JavaScript strings are sequences of one-character strings, so that      *)
(* concatenation, split, join, toLowerCase, indexOf and replace are        *)
(* computed as the engine computes them.                                   *)
(***************************************************************************)
EXTENDS Integers, Sequences, FiniteSets, TLC

VARIABLES
    file,        \* which Strategy class is loaded: "part_001" or "lib"
    options,     \* self._options, the one configuration object all attempts share
    clients,     \* number of ldap.createClient calls made so far (client ids 1..clients)
    bindReplies, \* attempt -> sequence of the err arguments its bind callbacks got
    searchReplies, \* attempt -> sequence of the err arguments its search callbacks got
    pc,          \* attempt -> position of the attempt
    req,         \* attempt -> the request handed to authenticate
    client,      \* attempt -> id of the client the attempt talks to (0: none)
    bindCalls,   \* attempt -> sequence of Client.bind calls issued
    searchCalls, \* attempt -> sequence of Client.search calls issued
    entries,     \* attempt -> number of searchEntry events delivered
    delivered,   \* attempt -> the entry.object of each searchEntry event, in order
    terminal,    \* attempt -> sequence (length <= 1) holding the stream's terminal event
    verifyCalls, \* attempt -> number of self._verify invocations
    pending,     \* attempt -> profiles whose verify done callback has not been called
    verifyDones, \* attempt -> the results the done callbacks were called with, in order
    reported,    \* attempt -> sequence of outcomes reported (success / fail / error)
    thrown,      \* attempt -> sequence of exceptions thrown out of a handler
    logged       \* attempt -> number of console.log calls its handlers made

vars == <<file, options, clients, bindReplies, searchReplies, pc, req, client, bindCalls,
          searchCalls, entries, delivered, terminal, verifyCalls, pending, verifyDones,
          reported, thrown, logged>>

----------------------------------------------------------------------------
(* Bounds of the model *)

MaxAttempts == 2

MaxEntries == 2

Attempts == 1..MaxAttempts

----------------------------------------------------------------------------
(* JavaScript strings *)

\* String.prototype.toLowerCase on one character (the letters the model uses).
LowerChar(c) ==
    CASE c = "A" -> "a"
      [] c = "B" -> "b"
      [] c = "D" -> "d"
      [] OTHER -> c

toLowerCase(s) == [i \in 1..Len(s) |-> LowerChar(s[i])]

\* Whether pat occurs in s at position i.
MatchAt(s, pat, i) ==
    /\ i >= 1
    /\ i + Len(pat) - 1 <= Len(s)
    /\ \A k \in 1..Len(pat) : s[i + k - 1] = pat[k]

\* Position of the first occurrence of pat in s, 0 when there is none.
FirstMatch(s, pat) ==
    IF \E i \in 1..Len(s) : MatchAt(s, pat, i)
    THEN CHOOSE i \in 1..Len(s) :
            /\ MatchAt(s, pat, i)
            /\ \A j \in 1..(i - 1) : ~MatchAt(s, pat, j)
    ELSE 0

\* Array.prototype.join(sep).
RECURSIVE join(_, _)
join(parts, sep) ==
    IF Len(parts) = 0 THEN <<>>
    ELSE IF Len(parts) = 1 THEN parts[1]
    ELSE parts[1] \o sep \o join(Tail(parts), sep)

\* String.prototype.split(sep) for a one-character separator.
RECURSIVE split(_, _)
split(s, sep) ==
    LET i == FirstMatch(s, sep)
    IN  IF i = 0 THEN <<s>>
        ELSE <<SubSeq(s, 1, i - 1)>> \o split(SubSeq(s, i + Len(sep), Len(s)), sep)

\* Array.prototype.indexOf(x) === -1 is ~Contains(arr, x): elements compared with ===.
Contains(arr, x) == \E i \in 1..Len(arr) : arr[i] = x

\* A JavaScript value that is a string or undefined.
Undefined == [def |-> FALSE, s |-> <<>>]

Str(s) == [def |-> TRUE, s |-> s]

\* String(v) of such a value: undefined becomes the text "undefined".
StringOf(v) == IF v.def THEN v.s ELSE <<"u", "n", "d", "e", "f", "i", "n", "e", "d">>

\* Truthiness of such a value: undefined and the empty string are falsy.
Truthy(v) == v.def /\ Len(v.s) > 0

\* The expansion of a replacement text: $$ is a dollar sign, $& the matched text and
\* $' the text after the match.  (The fourth pattern, the text before the match, is
\* written with a backtick, a character no string of the model contains.)
RECURSIVE Expand(_, _, _)
Expand(repl, matched, after) ==
    IF Len(repl) = 0 THEN <<>>
    ELSE IF repl[1] = "$" /\ Len(repl) >= 2 /\ repl[2] \in {"$", "&", "'"}
    THEN (CASE repl[2] = "$" -> <<"$">>
            [] repl[2] = "&" -> matched
            [] OTHER -> after)
         \o Expand(SubSeq(repl, 3, Len(repl)), matched, after)
    ELSE <<repl[1]>> \o Expand(Tail(repl), matched, after)

\* String.prototype.replace(/pat/, v) with a regular expression without the g flag
\* that matches the literal text pat: the first match only, v converted to a string.
replace(s, pat, v) ==
    LET i == FirstMatch(s, pat)
        before == SubSeq(s, 1, i - 1)
        after == SubSeq(s, i + Len(pat), Len(s))
    IN  IF i = 0 THEN s
        ELSE before \o Expand(StringOf(v), pat, after) \o after

\* The placeholder the regular expression /\$uid\$/ matches.
Placeholder == <<"$", "u", "i", "d", "$">>

----------------------------------------------------------------------------
(* Configurations: the options object handed to the constructor *)

\* The texts of the model.
DcA == <<"d", "c", "=", "a">>

DcX == <<"d", "c", "=", "x">>

OuY == <<"o", "u", "=", "y">>

Comma == <<",">>

Backslash == <<"\\">>

\* options.base: a string, or an array of components.
BaseString(s) == [isString |-> TRUE, s |-> s, parts |-> <<>>]

BaseArray(parts) == [isString |-> FALSE, s |-> <<>>, parts |-> parts]

Bases == { BaseString(DcX),
           BaseArray(<<OuY, DcX>>),
           BaseArray(<<DcA, DcX>>) }

\* options.search.filter, as in src/example.js: '(sAMAccountName=$uid$)', shortened.
FilterTemplate == <<"(", "n", "=">> \o Placeholder \o <<")">>

UidTags == { <<"u", "i", "d">>, <<"c", "n">> }

\* The names of the request fields: a name, or "undefined" when the option is absent
\* (a property read with the key undefined reads the property named "undefined").
FieldNames == { <<"username", "password">>, <<"undefined", "undefined">> }

\* The options the constructor stores (Strategy, this._options = options).  uidTag is
\* read in Unix mode only.  The class of strategy.js never reads the field names, and
\* hands options.base to client.search as it is, so its base is a DN string.
Configs(f) ==
    { o \in [ usernameField : {fn[1] : fn \in FieldNames},
              passwordField : {fn[2] : fn \in FieldNames},
              base : Bases, search : {[filter |-> FilterTemplate]},
              authOnly : BOOLEAN, authMode : {0, 1}, uidTag : UidTags,
              debug : BOOLEAN ] :
        /\ <<o.usernameField, o.passwordField>> \in FieldNames
        /\ o.authMode = 1 \/ o.uidTag = <<"u", "i", "d">>
        /\ f = "lib" => /\ o.base.isString
                        /\ o.usernameField = "username" }

----------------------------------------------------------------------------
(* Requests *)

UserDomain == <<"A", "\\", "b">>

UserPlain == <<"b">>

UserDollar == <<"A", "\\", "$", "&">>

Secret == <<"p">>

NoBody == [hasBody |-> FALSE, body |-> <<>>]

\* A request body with the given fields; an undefined value leaves the field out.
Body(uKey, u, pKey, p) ==
    [hasBody |-> TRUE,
     body |-> [k \in ((IF u.def THEN {uKey} ELSE {}) \cup (IF p.def THEN {pKey} ELSE {}))
                 |-> IF k = uKey THEN u.s ELSE p.s]]

\* req.body[key]
Get(r, key) == IF key \in DOMAIN r.body THEN Str(r.body[key]) ELSE Undefined

Credentials ==
    { <<Str(u), Str(Secret)>> : u \in {UserDomain, UserPlain, UserDollar} }
    \cup { <<Str(<<>>), Str(Secret)>>, <<Undefined, Str(Secret)>>,
           <<Str(UserDomain), Str(<<>>)>>, <<Str(UserDomain), Undefined>> }

Requests ==
    {NoBody}
    \cup { Body("username", c[1], "password", c[2]) : c \in Credentials }
    \cup { Body("user", c[1], "pwd", c[2]) : c \in Credentials }

----------------------------------------------------------------------------
(* Outcomes: what self.success, self.fail and self.error are called with *)

Success(shape, obj) == [kind |-> "success", shape |-> shape, code |-> 0, obj |-> obj]

Fail(code) == [kind |-> "fail", shape |-> "code", code |-> code, obj |-> <<>>]

Error(err) == [kind |-> "error", shape |-> "err", code |-> 0, obj |-> err]

\* The directory: the status codes of an end event, the error of an error event,
\* and the object of the k-th entry delivered.
Statuses == {0, 32}

NetworkError == <<"n", "e", "t">>

\* The err argument of a callback: null, or one of the errors the directory answers
\* a bind or a search with.
NoError == <<>>

InvalidCredentialsError == <<"4", "9">>

LdapErrors == {InvalidCredentialsError, NetworkError}

\* The terminal events of the stream res: 'end' with result.status, 'error' with err.
EndEvent(status) == [event |-> "end", status |-> status, err |-> NoError]

ErrorEvent(err) == [event |-> "error", status |-> 0, err |-> err]

\* if (self._options.debug) console.log(...): the number of lines written
Log(o) == IF o.debug THEN 1 ELSE 0

Digits == <<"1", "2", "3", "4", "5", "6", "7", "8", "9">>

Profile(k) == <<"P", Digits[k]>>

\* The application's verify callback: it calls done(err), done(null, false) or
\* done(null, user).
VerifyResults == {"err", "false", "user"}

VerifyError == <<"b", "a", "d">>

UserOf(profile) == <<"U">> \o profile

----------------------------------------------------------------------------
(* The DN resolver and the request check of src/unnamed/part_001 *)

\* if (!req.body || !req.body[usernameField] || !req.body[passwordField])
MissingCredentials(r, o) ==
    \/ ~r.hasBody
    \/ ~Truthy(Get(r, o.usernameField))
    \/ ~Truthy(Get(r, o.passwordField))

\* base, joined with commas when it is not a string
JoinedBase(o) == IF o.base.isString THEN o.base.s ELSE join(o.base.parts, Comma)

\* A bind DN built from a base that is taken for a string whatever it is.
BindDN_BaseUnjoined(o, username) ==
    IF o.authMode = 1
    THEN o.uidTag \o <<"=">> \o username \o Comma \o o.base.s
    ELSE username

\* The first argument of Client.bind: username, rewritten in Unix mode.
BindDN(o, username) ==
    IF o.authMode = 1
    THEN o.uidTag \o <<"=">> \o username \o Comma \o JoinedBase(o)
    ELSE username

\* var name: assigned only in Windows mode with a base given as components, where it
\* is nameSplit[1] (undefined when the username holds no backslash).
LocalName(o, username) ==
    IF o.authMode # 1 /\ ~o.base.isString
    THEN LET nameSplit == split(username, Backslash)
         IN  IF Len(nameSplit) >= 2 THEN Str(nameSplit[2]) ELSE Undefined
    ELSE Undefined

\* A search base that gets the domain component whether the base holds it or not.
SearchDN_AlwaysPrepend(o, username) ==
    IF o.authMode # 1
    THEN IF ~o.base.isString
         THEN LET nameSplit == split(username, Backslash)
                  dc == <<"d", "c", "=">> \o toLowerCase(nameSplit[1])
              IN  join(<<dc>> \o o.base.parts, Comma)
         ELSE o.base.s
    ELSE username

\* var dn: the first argument of Client.search.  username is the bind DN.
SearchDN(o, username) ==
    IF o.authMode # 1
    THEN IF ~o.base.isString
         THEN LET nameSplit == split(username, Backslash)
                  dc == <<"d", "c", "=">> \o toLowerCase(nameSplit[1])
              IN  join(IF ~Contains(o.base.parts, dc)
                       THEN <<dc>> \o o.base.parts
                       ELSE o.base.parts, Comma)
         ELSE o.base.s
    ELSE username

\* search.filter of the copy handed to Client.search
SearchFilter(o, username) ==
    replace(o.search.filter, Placeholder, LocalName(o, username))

----------------------------------------------------------------------------
(* The same of src/lib/passport-ldap/strategy.js *)

\* if (!req.body.user || !req.body.pwd), for a request that has a body
MissingCredentialsLib(r) ==
    \/ ~Truthy(Get(r, "user"))
    \/ ~Truthy(Get(r, "pwd"))

\* var user: the first argument of client.bind
BindDNLib(o, reqUser) ==
    IF o.authMode = 1
    THEN o.uidTag \o <<"=">> \o reqUser \o Comma \o JoinedBase(o)
    ELSE reqUser

\* var dn = (authMode === 1 ? user : base)
SearchDNLib(o, user) == IF o.authMode = 1 THEN user ELSE JoinedBase(o)

\* self._options.search.filter after the assignment of line 108
SearchFilterLib(o, reqUser) == replace(o.search.filter, Placeholder, Str(reqUser))

----------------------------------------------------------------------------
(* State after construction *)

\* Strategy(options, verify): part_001 stores the options; strategy.js also makes
\* the one client every attempt will use (this.client = ldap.createClient(...)).
Init ==
    /\ file \in {"part_001", "lib"}
    /\ options \in Configs(file)
    /\ clients = IF file = "lib" THEN 1 ELSE 0
    /\ bindReplies = [a \in Attempts |-> <<>>]
    /\ searchReplies = [a \in Attempts |-> <<>>]
    /\ pc = [a \in Attempts |-> "idle"]
    /\ req = [a \in Attempts |-> NoBody]
    /\ client = [a \in Attempts |-> 0]
    /\ bindCalls = [a \in Attempts |-> <<>>]
    /\ searchCalls = [a \in Attempts |-> <<>>]
    /\ entries = [a \in Attempts |-> 0]
    /\ delivered = [a \in Attempts |-> <<>>]
    /\ terminal = [a \in Attempts |-> <<>>]
    /\ verifyCalls = [a \in Attempts |-> 0]
    /\ pending = [a \in Attempts |-> <<>>]
    /\ verifyDones = [a \in Attempts |-> <<>>]
    /\ reported = [a \in Attempts |-> <<>>]
    /\ thrown = [a \in Attempts |-> <<>>]
    /\ logged = [a \in Attempts |-> 0]

\* Attempts are started in the order of their numbers.
MayStart(a) == pc[a] = "idle" /\ \A b \in 1..(a - 1) : pc[b] # "idle"

RECURSIVE SumUpTo(_, _)
SumUpTo(f, n) == IF n = 0 THEN 0 ELSE f[n] + SumUpTo(f, n - 1)

\* The directory delivers at most MaxEntries entries in all.
EntriesDelivered == SumUpTo(entries, MaxAttempts)

----------------------------------------------------------------------------
(* src/unnamed/part_001: Strategy.prototype.authenticate and its callbacks.      *)
(* What a handler does is a function of self._options and of its arguments: the  *)
(* outcomes it reports, the requests it sends, what it throws and the lines it   *)
(* logs.  The action of the handler applies that function to the state.          *)

\* authenticate(req): lines 93-107, the request check and the arguments of Client.bind.
AuthenticateStep(o, r) ==
    IF MissingCredentials(r, o)
    THEN [report |-> <<Fail(401)>>, bind |-> <<>>]
    ELSE [report |-> <<>>,
          bind |-> <<[dn |-> BindDN(o, Get(r, o.usernameField).s),
                      password |-> Get(r, o.passwordField).s]>>]

\* authenticate(req): lines 88-107, up to the call of Client.bind.
authenticate(a, r) ==
    /\ file = "part_001"
    /\ MayStart(a)
    /\ req' = [req EXCEPT ![a] = r]
    /\ clients' = clients + 1
    /\ client' = [client EXCEPT ![a] = clients + 1]
    /\ LET step == AuthenticateStep(options, r)
       IN  /\ reported' = [reported EXCEPT ![a] = @ \o step.report]
           /\ bindCalls' = [bindCalls EXCEPT ![a] =
                 @ \o [i \in 1..Len(step.bind) |->
                          [dn |-> step.bind[i].dn, password |-> step.bind[i].password,
                           on |-> clients + 1]]]
           /\ pc' = [pc EXCEPT ![a] = IF step.bind = <<>> THEN "done" ELSE "bind"]
    /\ UNCHANGED <<file, options, bindReplies, searchReplies, searchCalls, entries,
                   delivered, terminal, verifyCalls, pending, verifyDones, thrown,
                   logged>>

\* A bind callback that hands the directory's error on to the application.
BindStep_ErrorDetail(o, username, err) ==
    IF err # NoError
    THEN [report |-> <<Error(err)>>, search |-> <<>>, log |-> Log(o)]
    ELSE IF o.authOnly
    THEN [report |-> <<Success("uid", username)>>, search |-> <<>>, log |-> Log(o)]
    ELSE [report |-> <<>>, log |-> 0,
          search |-> <<[dn |-> SearchDN(o, username),
                        filter |-> SearchFilter(o, username)]>>]

\* A bind callback that does not look at err.
BindStep_SearchAnyway(o, username, err) ==
    IF o.authOnly
    THEN [report |-> <<Success("uid", username)>>, search |-> <<>>, log |-> Log(o)]
    ELSE [report |-> <<>>, log |-> 0,
          search |-> <<[dn |-> SearchDN(o, username),
                        filter |-> SearchFilter(o, username)]>>]

\* The callback of Client.bind: lines 107-142.  username is the bind DN, err the
\* callback's argument.
BindStep(o, username, err) ==
    IF err # NoError
    THEN [report |-> <<Fail(403)>>, search |-> <<>>, log |-> Log(o)]
    ELSE IF o.authOnly
    THEN [report |-> <<Success("uid", username)>>, search |-> <<>>, log |-> Log(o)]
    ELSE [report |-> <<>>, log |-> 0,
          search |-> <<[dn |-> SearchDN(o, username),
                        filter |-> SearchFilter(o, username)]>>]

\* The callback of Client.bind: lines 107-142 and 177-179.
BindCallback(a, err) ==
    /\ file = "part_001"
    /\ pc[a] = "bind"
    /\ bindReplies' = [bindReplies EXCEPT ![a] = Append(@, err)]
    /\ LET step == BindStep(options, bindCalls[a][1].dn, err)
       IN  /\ reported' = [reported EXCEPT ![a] = @ \o step.report]
           /\ searchCalls' = [searchCalls EXCEPT ![a] =
                 @ \o [i \in 1..Len(step.search) |->
                          [dn |-> step.search[i].dn, filter |-> step.search[i].filter,
                           on |-> client[a]]]]
           /\ logged' = [logged EXCEPT ![a] = @ + step.log]
           /\ pc' = [pc EXCEPT ![a] = IF step.search = <<>> THEN "done" ELSE "search"]
    /\ UNCHANGED <<file, options, clients, searchReplies, req, client, bindCalls,
                   entries, delivered, terminal, verifyCalls, pending, verifyDones,
                   thrown>>

\* The callback of Client.search: lines 142-147; without an error it registers the
\* three handlers on res.
SearchStep(o, err) ==
    IF err # NoError
    THEN [report |-> <<Fail(403)>>, stream |-> FALSE, log |-> Log(o)]
    ELSE [report |-> <<>>, stream |-> TRUE, log |-> 0]

\* The callback of Client.search: lines 142-147 and 148-176 (the three handlers are
\* registered on res).
SearchCallback(a, err) ==
    /\ pc[a] = "search"
    /\ searchReplies' = [searchReplies EXCEPT ![a] = Append(@, err)]
    /\ LET step == SearchStep(options, err)
       IN  /\ reported' = [reported EXCEPT ![a] = @ \o step.report]
           /\ logged' = [logged EXCEPT ![a] = @ + step.log]
           /\ pc' = [pc EXCEPT ![a] = IF step.stream THEN "stream" ELSE "done"]
    /\ UNCHANGED <<file, options, clients, bindReplies, req, client, bindCalls,
                   searchCalls, entries, delivered, terminal, verifyCalls, pending,
                   verifyDones, thrown>>

\* The k-th entry the directory delivers.
Entry(k) == [object |-> Profile(k)]

\* res.on('searchEntry'): lines 148-151; self._verify is called with entry.object and
\* the done callback.
searchEntry(a) ==
    /\ pc[a] = "stream"
    /\ EntriesDelivered < MaxEntries
    /\ LET entry == Entry(EntriesDelivered + 1)
           profile == entry.object
       IN  /\ delivered' = [delivered EXCEPT ![a] = Append(@, entry.object)]
           /\ pending' = [pending EXCEPT ![a] = Append(@, profile)]
    /\ entries' = [entries EXCEPT ![a] = @ + 1]
    /\ verifyCalls' = [verifyCalls EXCEPT ![a] = @ + 1]
    /\ UNCHANGED <<file, options, clients, bindReplies, searchReplies, pc, req, client,
                   bindCalls, searchCalls, terminal, verifyDones, reported, thrown,
                   logged>>

\* A done callback that reports the profile in place of the user it was given.
VerifyOutcome_ProfileAsUser(result, profile) ==
    CASE result = "err" -> [report |-> <<Error(VerifyError)>>, throw |-> <<>>]
      [] result = "false" ->
            [report |-> <<>>,
             throw |-> <<"TypeError: self._challenge is not a function">>]
      [] OTHER -> [report |-> <<Success("user", profile)>>, throw |-> <<>>]

\* What the done callback does with (err, user): lines 151-162.  self._challenge is
\* defined neither by Strategy nor by passport.Strategy, so calling it throws.
VerifyOutcome(result, profile) ==
    CASE result = "err" -> [report |-> <<Error(VerifyError)>>, throw |-> <<>>]
      [] result = "false" ->
            [report |-> <<>>,
             throw |-> <<"TypeError: self._challenge is not a function">>]
      [] OTHER -> [report |-> <<Success("user", UserOf(profile))>>, throw |-> <<>>]

\* The done callback, lines 151-162, with its console.log calls: that of line 157
\* evaluates self._challenge() first, so it throws before it writes.
DoneStep(o, result, profile) ==
    LET out == VerifyOutcome(result, profile)
    IN  [report |-> out.report, throw |-> out.throw,
         log |-> IF result = "false" THEN 0 ELSE Log(o)]

RemoveAt(seq, i) == SubSeq(seq, 1, i - 1) \o SubSeq(seq, i + 1, Len(seq))

\* The done callback of the i-th outstanding verify call.
VerifyDone(a, i, result) ==
    /\ i \in 1..Len(pending[a])
    /\ LET step == DoneStep(options, result, pending[a][i])
       IN  /\ reported' = [reported EXCEPT ![a] = @ \o step.report]
           /\ thrown' = [thrown EXCEPT ![a] = @ \o step.throw]
           /\ logged' = [logged EXCEPT ![a] = @ + step.log]
    /\ pending' = [pending EXCEPT ![a] = RemoveAt(@, i)]
    /\ verifyDones' = [verifyDones EXCEPT ![a] = Append(@, result)]
    /\ UNCHANGED <<file, options, clients, bindReplies, searchReplies, pc, req, client,
                   bindCalls, searchCalls, entries, delivered, terminal, verifyCalls>>

\* An error handler that turns the stream's error into a refusal.
ErrorStep_Refuses(o, err) == [report |-> <<Fail(403)>>, log |-> Log(o)]

\* res.on('error'): lines 165-168.
ErrorStep(o, err) == [report |-> <<Error(err)>>, log |-> Log(o)]

\* res.on('error'): lines 165-168.  The stream's terminal event.
searchError(a, err) ==
    /\ pc[a] = "stream"
    /\ terminal' = [terminal EXCEPT ![a] = <<ErrorEvent(err)>>]
    /\ LET step == ErrorStep(options, err)
       IN  /\ reported' = [reported EXCEPT ![a] = @ \o step.report]
           /\ logged' = [logged EXCEPT ![a] = @ + step.log]
    /\ pc' = [pc EXCEPT ![a] = "ended"]
    /\ UNCHANGED <<file, options, clients, bindReplies, searchReplies, req, client,
                   bindCalls, searchCalls, entries, delivered, verifyCalls, pending,
                   verifyDones, thrown>>

\* An end handler that reports the status only while it is logging.
EndStep_OnlyWhenLogging(o, status) ==
    IF status # 0 /\ o.debug
    THEN [report |-> <<Fail(status)>>, log |-> Log(o)]
    ELSE [report |-> <<>>, log |-> 0]

\* res.on('end'): lines 170-175.
EndStep(o, status) ==
    IF status # 0
    THEN [report |-> <<Fail(status)>>, log |-> Log(o)]
    ELSE [report |-> <<>>, log |-> 0]

\* res.on('end'): lines 170-175.  The stream's terminal event.
searchEnd(a, status) ==
    /\ pc[a] = "stream"
    /\ terminal' = [terminal EXCEPT ![a] = <<EndEvent(status)>>]
    /\ LET step == EndStep(options, status)
       IN  /\ reported' = [reported EXCEPT ![a] = @ \o step.report]
           /\ logged' = [logged EXCEPT ![a] = @ + step.log]
    /\ pc' = [pc EXCEPT ![a] = "ended"]
    /\ UNCHANGED <<file, options, clients, bindReplies, searchReplies, req, client,
                   bindCalls, searchCalls, entries, delivered, verifyCalls, pending,
                   verifyDones, thrown>>

----------------------------------------------------------------------------
(* src/lib/passport-ldap/strategy.js: authenticate and the callback of bind; the  *)
(* callback of search and the handlers are those above, line for line.            *)

\* authenticate(req): lines 89-97.  req.body.user of a request without a body throws.
AuthenticateStepLib(o, r) ==
    IF ~r.hasBody
    THEN [throw |-> <<"TypeError: Cannot read property 'user' of undefined">>,
          report |-> <<>>, bind |-> <<>>]
    ELSE IF MissingCredentialsLib(r)
    THEN [throw |-> <<>>, report |-> <<Fail(401)>>, bind |-> <<>>]
    ELSE [throw |-> <<>>, report |-> <<>>,
          bind |-> <<[dn |-> BindDNLib(o, Get(r, "user").s),
                      password |-> Get(r, "pwd").s]>>]

\* authenticate(req): lines 86-97.
authenticateLib(a, r) ==
    /\ file = "lib"
    /\ MayStart(a)
    /\ req' = [req EXCEPT ![a] = r]
    /\ LET step == AuthenticateStepLib(options, r)
       IN  /\ thrown' = [thrown EXCEPT ![a] = @ \o step.throw]
           /\ reported' = [reported EXCEPT ![a] = @ \o step.report]
           /\ bindCalls' = [bindCalls EXCEPT ![a] =
                 @ \o [i \in 1..Len(step.bind) |->
                          [dn |-> step.bind[i].dn, password |-> step.bind[i].password,
                           on |-> 1]]]
           /\ pc' = [pc EXCEPT ![a] = IF step.bind = <<>> THEN "done" ELSE "bind"]
    /\ UNCHANGED <<file, options, clients, bindReplies, searchReplies, client,
                   searchCalls, entries, delivered, terminal, verifyCalls, pending,
                   verifyDones, logged>>

\* The callback of self.client.bind: lines 97-109.  user is the bind DN, reqUser is
\* req.body.user; search.filter is the value line 108 assigns.
BindStepLib(o, user, reqUser, err) ==
    IF err # NoError
    THEN [report |-> <<Fail(403)>>, search |-> <<>>, log |-> Log(o)]
    ELSE IF o.authOnly
    THEN [report |-> <<Success("uid", reqUser)>>, search |-> <<>>, log |-> Log(o)]
    ELSE [report |-> <<>>, log |-> 0,
          search |-> <<[dn |-> SearchDNLib(o, user),
                        filter |-> SearchFilterLib(o, reqUser)]>>]

\* The callback of self.client.bind: lines 97-109 and 144-146.  The filter is
\* replaced in self._options.search itself, the object handed to client.search.
BindCallbackLib(a, err) ==
    /\ file = "lib"
    /\ pc[a] = "bind"
    /\ bindReplies' = [bindReplies EXCEPT ![a] = Append(@, err)]
    /\ LET step == BindStepLib(options, bindCalls[a][1].dn, Get(req[a], "user").s, err)
       IN  /\ reported' = [reported EXCEPT ![a] = @ \o step.report]
           /\ options' = IF step.search = <<>> THEN options
                         ELSE [options EXCEPT !.search.filter = step.search[1].filter]
           /\ searchCalls' = [searchCalls EXCEPT ![a] =
                 @ \o [i \in 1..Len(step.search) |->
                          [dn |-> step.search[i].dn, filter |-> step.search[i].filter,
                           on |-> 1]]]
           /\ logged' = [logged EXCEPT ![a] = @ + step.log]
           /\ pc' = [pc EXCEPT ![a] = IF step.search = <<>> THEN "done" ELSE "search"]
    /\ UNCHANGED <<file, clients, searchReplies, req, client, bindCalls, entries,
                   delivered, terminal, verifyCalls, pending, verifyDones, thrown>>

----------------------------------------------------------------------------

\* The err argument of a callback.
Errs == {NoError} \cup LdapErrors

Next ==
    \/ \E a \in Attempts, r \in Requests : authenticate(a, r)
    \/ \E a \in Attempts, err \in Errs : BindCallback(a, err)
    \/ \E a \in Attempts, r \in Requests : authenticateLib(a, r)
    \/ \E a \in Attempts, err \in Errs : BindCallbackLib(a, err)
    \/ \E a \in Attempts, err \in Errs : SearchCallback(a, err)
    \/ \E a \in Attempts : searchEntry(a)
    \/ \E a \in Attempts, i \in 1..MaxEntries, result \in VerifyResults :
          VerifyDone(a, i, result)
    \/ \E a \in Attempts, err \in LdapErrors : searchError(a, err)
    \/ \E a \in Attempts, status \in Statuses : searchEnd(a, status)

Spec == Init /\ [][Next]_vars

----------------------------------------------------------------------------
(* Properties *)

Started(a) == pc[a] # "idle"

\* The bind of attempt a was accepted by the directory.
BindSucceeded(a) == bindReplies[a] = <<NoError>>

\* The kinds of the outcomes attempt a has reported.
Kinds(a) == { reported[a][i].kind : i \in 1..Len(reported[a]) }

\* The request field an option names, with the documented default when it is absent.
FieldOr(name, default) == IF name = "undefined" THEN default ELSE name

\* The body, the username field or the password field of r is missing or empty.
LacksCredentials(r) ==
    \/ ~r.hasBody
    \/ ~Truthy(Get(r, FieldOr(options.usernameField, "username")))
    \/ ~Truthy(Get(r, FieldOr(options.passwordField, "password")))

\* The username the attempt took from its request.
SuppliedUsername(a) ==
    IF file = "lib" THEN Get(req[a], "user").s
    ELSE Get(req[a], options.usernameField).s

HasBackslash(s) == FirstMatch(s, Backslash) # 0

\* The template with the placeholder replaced by the text local, character for character.
FilterFor(local) == <<"(", "n", "=">> \o local \o <<")">>

(* C1: an attempt reports at most one of success, fail and error, whatever the order
   of the search events and of the verify completions; after the first outcome no
   later event of the attempt makes it report another. *)
C1_AtMostOneOutcome == \A a \in Attempts : Len(reported[a]) <= 1

(* C2: a request whose body, username field or password field is missing or empty is
   answered with fail(401) and nothing else, and the attempt creates no client and
   issues no bind and no search. *)
C2_MissingCredentialsFail401 ==
    \A a \in Attempts :
        Started(a) /\ LacksCredentials(req[a]) =>
            /\ reported[a] = <<Fail(401)>>
            /\ thrown[a] = <<>>
            /\ client[a] = 0
            /\ bindCalls[a] = <<>>
            /\ searchCalls[a] = <<>>

(* C3: after an accepted bind with authOnly false, a search stream that ends with
   status 0 without having delivered an entry leaves the attempt with exactly one
   outcome, a fail. *)
C3_EmptySearchReportsFail ==
    \A a \in Attempts :
        /\ BindSucceeded(a)
        /\ ~options.authOnly
        /\ entries[a] = 0
        /\ terminal[a] = <<EndEvent(0)>>
        => /\ Len(reported[a]) = 1
           /\ reported[a][1].kind = "fail"

(* C4: the verify callback is invoked at most once in an attempt, and only after the
   search of the attempt delivered an entry: never with authOnly, never after a
   rejected bind or a search that could not be issued. *)
C4_VerifyAtMostOnce ==
    \A a \in Attempts :
        /\ verifyCalls[a] <= 1
        /\ verifyCalls[a] >= 1 =>
              /\ entries[a] >= 1
              /\ ~options.authOnly
              /\ BindSucceeded(a)
              /\ pc[a] \in {"stream", "ended"}

(* C5: in Windows mode with authOnly false, an attempt whose username holds no
   backslash issues no search, throws nothing and reports nothing but a fail. *)
C5_NoSeparatorFails ==
    \A a \in Attempts :
        /\ options.authMode # 1
        /\ ~options.authOnly
        /\ bindCalls[a] # <<>>
        /\ ~HasBackslash(SuppliedUsername(a))
        => /\ searchCalls[a] = <<>>
           /\ thrown[a] = <<>>
           /\ Kinds(a) \subseteq {"fail"}

(* C6: the filter of every search issued is the template with the placeholder
   replaced by the local username of the attempt: the supplied username in Unix
   mode, the part after the backslash in Windows mode. *)
C6_FilterCarriesLocalName ==
    \A a \in Attempts :
        searchCalls[a] # <<>> =>
            LET u == SuppliedUsername(a)
            IN  IF options.authMode = 1
                THEN searchCalls[a][1].filter = FilterFor(u)
                ELSE HasBackslash(u) =>
                        searchCalls[a][1].filter = FilterFor(split(u, Backslash)[2])

(* C7: no step of any attempt changes the configuration: every option, the filter
   template included, keeps the value it had at construction. *)
C7_ConfigurationUnchanged == [][options' = options]_vars

(* C8: two attempts never issue their binds on the same client. *)
C8_OwnConnection ==
    \A a, b \in Attempts :
        a # b /\ bindCalls[a] # <<>> /\ bindCalls[b] # <<>> =>
            bindCalls[a][1].on # bindCalls[b][1].on

(* C9: with authOnly, an accepted bind makes the attempt report exactly
   success({uid: the DN passed to bind}), without a search and without a call of the
   verify callback. *)
C9_AuthOnlySuccessCarriesBindDN ==
    \A a \in Attempts :
        options.authOnly /\ BindSucceeded(a) =>
            /\ reported[a] = <<Success("uid", bindCalls[a][1].dn)>>
            /\ searchCalls[a] = <<>>
            /\ verifyCalls[a] = 0

(* C10: when the one entry of a search has been verified with (null, false) and the
   stream has not ended, the attempt has reported exactly one outcome, a fail, and
   has thrown nothing. *)
C10_FalsyUserReportsFail ==
    \A a \in Attempts :
        /\ BindSucceeded(a)
        /\ entries[a] = 1
        /\ verifyDones[a] = <<"false">>
        /\ terminal[a] = <<>>
        => /\ thrown[a] = <<>>
           /\ Len(reported[a]) = 1
           /\ reported[a][1].kind = "fail"

\* The components of the configured base.
BaseComponents == IF options.base.isString THEN split(options.base.s, Comma)
                  ELSE options.base.parts

(* C11: after an accepted bind and one delivered entry, the verify callback has
   received the object of that entry as the profile, and its result is what the
   attempt reports: done(e) gives error(e) and done(null, u) gives success(u); it is
   the only outcome while the stream has not ended. *)
C11_VerifyResultCarried ==
    \A a \in Attempts :
        BindSucceeded(a) /\ entries[a] = 1 =>
            LET carried(v) == /\ \E i \in 1..Len(reported[a]) : reported[a][i] = v
                              /\ terminal[a] = <<>> => reported[a] = <<v>>
                              /\ thrown[a] = <<>>
            IN  /\ verifyDones[a] = <<>> => pending[a] = delivered[a]
                /\ verifyDones[a] = <<"err">> => carried(Error(VerifyError))
                /\ verifyDones[a] = <<"user">> =>
                      carried(Success("user", UserOf(delivered[a][1])))

C11_Witness ==
    \E a \in Attempts :
        /\ BindSucceeded(a)
        /\ entries[a] = 1
        /\ verifyDones[a] = <<"user">>
        /\ reported[a] = <<Success("user", UserOf(delivered[a][1]))>>

(* C12: in Unix mode the DN of every bind is uidTag=username followed by the
   components of the base, separated by commas; with authOnly false an accepted bind
   is followed by a search whose base DN is that bind DN. *)
C12_UnixBindDN ==
    \A a \in Attempts :
        options.authMode = 1 /\ bindCalls[a] # <<>> =>
            /\ split(bindCalls[a][1].dn, Comma)
                  = <<options.uidTag \o <<"=">> \o SuppliedUsername(a)>>
                    \o BaseComponents
            /\ ~options.authOnly /\ BindSucceeded(a) => searchCalls[a] # <<>>
            /\ searchCalls[a] # <<>> => searchCalls[a][1].dn = bindCalls[a][1].dn

C12_Witness ==
    \E a \in Attempts :
        /\ options.authMode = 1
        /\ ~options.base.isString
        /\ options.uidTag = <<"c", "n">>
        /\ searchCalls[a] # <<>>
        /\ searchCalls[a][1].dn = bindCalls[a][1].dn

\* How many elements of seq equal x.
CountOf(seq, x) == Cardinality({ i \in 1..Len(seq) : seq[i] = x })

\* dc=<domain lowercased> of the Windows username u (DOMAIN\name).
DomainComponent(u) == <<"d", "c", "=">> \o toLowerCase(split(u, Backslash)[1])

\* A search was issued in Windows mode for a username that holds a backslash.
WindowsSearch(a) ==
    /\ options.authMode # 1
    /\ searchCalls[a] # <<>>
    /\ HasBackslash(SuppliedUsername(a))

(* C13: in Windows mode, for a username DOMAIN\name and every configured base, the
   base DN of the search holds the component dc=<DOMAIN lowercased> exactly once. *)
C13_ExactlyOneDomainComponent ==
    \A a \in Attempts :
        WindowsSearch(a) =>
            CountOf(split(searchCalls[a][1].dn, Comma),
                    DomainComponent(SuppliedUsername(a))) = 1

(* C13, amended: for a base configured as components, the base DN of the search is
   the components joined with commas, with dc=<DOMAIN lowercased> put in front
   exactly when no configured component equals it, so that it holds the component
   once; a base configured as one string is the base DN as it is. *)
C13_DomainComponentOfComponentBase ==
    \A a \in Attempts :
        WindowsSearch(a) =>
            LET dc == DomainComponent(SuppliedUsername(a))
                dn == searchCalls[a][1].dn
            IN  IF options.base.isString
                THEN dn = options.base.s
                ELSE /\ split(dn, Comma) =
                          IF Contains(options.base.parts, dc)
                          THEN options.base.parts
                          ELSE <<dc>> \o options.base.parts
                     /\ CountOf(split(dn, Comma), dc) = 1

C13_Witness ==
    \E a \in Attempts :
        /\ WindowsSearch(a)
        /\ ~options.base.isString
        /\ Contains(options.base.parts, DomainComponent(SuppliedUsername(a)))
        /\ CountOf(split(searchCalls[a][1].dn, Comma),
                   DomainComponent(SuppliedUsername(a))) = 1

\* The directory answered the bind, or the search, of attempt a with an error.
BindFailed(a) == bindReplies[a] # <<>> /\ bindReplies[a][1] # NoError

SearchFailed(a) == searchReplies[a] # <<>> /\ searchReplies[a][1] # NoError

(* C14: whatever error the directory answers a bind or a search with, the attempt
   reports fail(403) and nothing else: no error outcome, nothing of the error in the
   outcome, the same value in both cases. *)
C14_DirectoryErrorsFail403 ==
    \A a \in Attempts :
        BindFailed(a) \/ SearchFailed(a) =>
            /\ reported[a] = <<Fail(403)>>
            /\ thrown[a] = <<>>
            /\ BindFailed(a) => searchCalls[a] = <<>>

C14_Witness ==
    \E a, b \in Attempts :
        /\ bindReplies[a] = <<NetworkError>>
        /\ searchReplies[b] = <<InvalidCredentialsError>>
        /\ reported[a] = <<Fail(403)>>
        /\ reported[b] = <<Fail(403)>>

\* The configuration with the other value of debug.
FlipDebug(o) == [o EXCEPT !.debug = ~@]

\* What a handler did, the lines it logged left out.
Visible(step) == [f \in DOMAIN step \ {"log"} |-> step[f]]

(* C15: debug changes nothing but the log.  Every handler call of the run, taken with
   the arguments it had, reports the same outcomes, sends the same bind and search
   requests, throws the same and goes on to the same handlers under the other value
   of debug; so two runs that differ in debug alone agree step by step.  Without
   debug nothing is logged.  The calls of authenticate and of the bind callback are
   compared in the states that follow them, up to the next answer of the directory. *)
C15_DebugOnlyLogs ==
    LET o == options
        q == FlipDebug(options)
    IN  \A a \in Attempts :
          /\ Started(a) /\ bindReplies[a] = <<>> =>
                IF file = "lib"
                THEN AuthenticateStepLib(o, req[a]) = AuthenticateStepLib(q, req[a])
                ELSE AuthenticateStep(o, req[a]) = AuthenticateStep(q, req[a])
          /\ bindReplies[a] # <<>> /\ searchReplies[a] = <<>> =>
                LET dn == bindCalls[a][1].dn
                    err == bindReplies[a][1]
                    reqUser == Get(req[a], "user").s
                IN  IF file = "lib"
                    THEN Visible(BindStepLib(o, dn, reqUser, err))
                            = Visible(BindStepLib(q, dn, reqUser, err))
                    ELSE Visible(BindStep(o, dn, err)) = Visible(BindStep(q, dn, err))
          /\ searchReplies[a] # <<>> =>
                Visible(SearchStep(o, searchReplies[a][1]))
                   = Visible(SearchStep(q, searchReplies[a][1]))
          /\ \A i \in 1..Len(verifyDones[a]), k \in 1..Len(delivered[a]) :
                Visible(DoneStep(o, verifyDones[a][i], delivered[a][k]))
                   = Visible(DoneStep(q, verifyDones[a][i], delivered[a][k]))
          /\ terminal[a] # <<>> =>
                LET ev == terminal[a][1]
                IN  IF ev.event = "error"
                    THEN Visible(ErrorStep(o, ev.err)) = Visible(ErrorStep(q, ev.err))
                    ELSE Visible(EndStep(o, ev.status)) = Visible(EndStep(q, ev.status))
          /\ ~options.debug => logged[a] = 0

C15_Witness ==
    \E a \in Attempts :
        /\ options.debug
        /\ logged[a] >= 2
        /\ searchCalls[a] # <<>>
        /\ terminal[a] = <<EndEvent(32)>>
        /\ "success" \in Kinds(a)

(* C16: with a configuration that names neither request field, a request whose
   username and password fields are non-empty is not refused with 401: the attempt
   goes on to bind with the password of the request. *)
C16_DefaultFieldNames ==
    \A a \in Attempts :
        /\ options.usernameField = "undefined"
        /\ options.passwordField = "undefined"
        /\ Started(a)
        /\ req[a].hasBody
        /\ Truthy(Get(req[a], "username"))
        /\ Truthy(Get(req[a], "password"))
        => /\ bindCalls[a] # <<>>
           /\ bindCalls[a][1].password = Get(req[a], "password").s
           /\ reported[a] # <<Fail(401)>>

(* C17: an error event of the stream that no searchEntry event preceded makes the
   attempt report error with the error of the event, and nothing else: no fail, no
   success, nothing thrown. *)
C17_StreamErrorReported ==
    \A a \in Attempts :
        /\ terminal[a] # <<>>
        /\ terminal[a][1].event = "error"
        /\ entries[a] = 0
        => /\ reported[a] = <<Error(terminal[a][1].err)>>
           /\ thrown[a] = <<>>

C17_Witness ==
    \E a \in Attempts :
        /\ terminal[a] = <<ErrorEvent(InvalidCredentialsError)>>
        /\ entries[a] = 0
        /\ reported[a] = <<Error(InvalidCredentialsError)>>

\* The stream of attempt a ended with the end event, with a status other than 0.
EndedNonZero(a) ==
    /\ terminal[a] # <<>>
    /\ terminal[a][1].event = "end"
    /\ terminal[a][1].status # 0

(* C18: when the stream ends with a status other than 0, fail(status) is among the
   outcomes of the attempt only if the search delivered no entry; and when it
   delivered none, fail(status) is the one outcome of the attempt. *)
C18_EndFailOnlyWithoutEntry ==
    \A a \in Attempts :
        EndedNonZero(a) =>
            LET status == terminal[a][1].status
            IN  /\ (\E i \in 1..Len(reported[a]) : reported[a][i] = Fail(status))
                      => entries[a] = 0
                /\ entries[a] = 0 => reported[a] = <<Fail(status)>>

\* The password the attempt took from its request.
SuppliedPassword(a) ==
    IF file = "lib" THEN Get(req[a], "pwd").s
    ELSE Get(req[a], options.passwordField).s

(* C19: an attempt issues a search, calls the verify callback or reports success
   only after the directory accepted its bind, made with the password of the
   request; with authOnly false it reports success only after a verify callback
   returned a user. *)
C19_BindPrecedes ==
    \A a \in Attempts :
        /\ (searchCalls[a] # <<>> \/ verifyCalls[a] > 0 \/ "success" \in Kinds(a))
              => /\ BindSucceeded(a)
                 /\ bindCalls[a][1].password = SuppliedPassword(a)
        /\ (~options.authOnly /\ "success" \in Kinds(a))
              => \E i \in 1..Len(verifyDones[a]) : verifyDones[a][i] = "user"

C19_Witness ==
    \E a \in Attempts :
        /\ ~options.authOnly
        /\ BindSucceeded(a)
        /\ verifyDones[a] = <<"user">>
        /\ "success" \in Kinds(a)

\* Every event of attempt a has happened: the directory answered the bind; the
\* attempt stopped there or at the answer to the search, or the stream delivered its
\* terminal event; and every verify callback invoked has completed.
Settled(a) ==
    /\ bindReplies[a] # <<>>
    /\ pc[a] \in {"done", "ended"}
    /\ pending[a] = <<>>

(* C20: an attempt whose bind and search were answered, whose stream delivered its
   terminal event and whose verify callbacks all completed has reported an outcome.
   No handler of a settled attempt is left to run, so an outcome missing then is
   missing for ever. *)
C20_SettledAttemptHasOutcome ==
    \A a \in Attempts : Settled(a) => reported[a] # <<>>

=============================================================================
